---- MODULE Spec2Model ----
(***************************************************************************)
(* A model of spec-test: runtime contract enforcement and the contract     *)
(* registry (src/src/spec_test/contracts.py), the requirement extractor    *)
(* (src/src/spec_test/collector.py), the exit code of the verify command   *)
(* (src/src/spec_test/cli.py), and the test registry and the verifier,     *)
(* whose modules (decorators.py, verifier.py, types.py) are modelled from  *)
(* the specification.                                                      *)
(*                                                                         *)
(* The specifications of the module:                                       *)
(*   Spec          one wrapped function, a call enforced step by step      *)
(*   SpecRegistry  several decorations and registry clears                 *)
(*   SpecParse     _parse_spec_file over one document                      *)
(*   SpecCollect   collect_specs / collect_spec_ids over a directory tree  *)
(*   SpecTests     test registrations and clears                           *)
(*   SpecVerify    one verification run and the exit of `verify`           *)
(*   SpecAsync     one wrapped coroutine function, with suspensions        *)
(*   SpecSnapshot  registry readers next to registrations and clears       *)
(*   SpecEnforce   several wrapped functions, calls and clears             *)
(***************************************************************************)
EXTENDS Integers, Sequences, FiniteSets, TLC

VARIABLES
    \* ---- contracts.py
    wrapped,      \* function name -> ContractInfo closed over by its wrapper
    registry,     \* _contract_registry: spec id -> ContractInfo
    regLog,       \* history of registry writes since process start
    pc,           \* position of the call in flight inside the wrapper
    call,         \* the call in flight: wrapped function, args, kwargs
    i,            \* index of the predicate being checked
    log,          \* every invocation the wrapper made during the call, in order
    sideEffect,   \* whether the wrapped body has performed its side effect
    result,       \* the wrapper's local `result` (<<>> before the body returns)
    returned,     \* what the caller received (<<>> when nothing)
    exc,          \* the exception that reached the caller (<<>> when none)
    \* ---- collector.py, _parse_spec_file
    doc,          \* the document as it was written: one structured line each
    lines,        \* content.split("\n")
    line_num,     \* enumerate(lines, 1) position
    records,      \* the SpecRequirement records yielded so far
    ppc,          \* position of the parse
    \* ---- collector.py, collect_specs / collect_spec_ids
    tree,         \* the files under specs_dir
    todo,         \* files glob has not produced yet
    specs,        \* the list collect_specs is building
    spec_ids,     \* the set collect_spec_ids returned
    cpc,          \* position of the collection
    \* ---- decorators.py
    spec_registry,\* _spec_registry: requirement id -> list of test bindings
    testLog,      \* history of test registrations since the last clear
    \* ---- verifier.py, cli.py
    reqs,         \* the requirements the collector extracted, in order
    report,       \* the VerificationReport being built
    vpc,          \* position of the verification run
    exit_code,    \* the process exit code of `verify` (<<>> while running)
    \* ---- readers of the contract registry
    snapshot,     \* the mapping get_contract_registry() returned to the run
    observed      \* what the run's later reads returned, in order

contractVars == <<wrapped, registry, regLog, pc, call, i, log, sideEffect, result, returned, exc>>
parseVars == <<doc, lines, line_num, records, ppc>>
collectVars == <<tree, todo, specs, spec_ids, cpc>>
testVars == <<spec_registry, testLog>>
verifyVars == <<reqs, report, vpc, exit_code>>
snapVars == <<snapshot, observed>>
vars == <<contractVars, parseVars, collectVars, testVars, verifyVars, snapVars>>

(***************************************************************************)
(* Bounds of the model.                                                    *)
(***************************************************************************)
MaxConds == 2
MaxFuncs == 3
MaxLines == 2
MaxFiles == 2

\* Python's None (Optional[str] spec ids, a function that returns nothing).
None == "<None>"

(***************************************************************************)
(* contracts.py: values the environment supplies.                          *)
(***************************************************************************)
\* Names of the functions the program decorates.
FuncSeq == <<"f", "g", "h", "k", "m">>

\* The `spec` argument of contract(): None, the empty string, or an ID.
SpecArgs == {None, "", "AUTH-001", "AUTH-002"}

\* Python values passed to and returned by wrapped functions.
ArgVals == {"-1", "5"}
Results == {"-1", "10"}

\* The (args, kwargs) of a call: positional, by keyword, or both.
CallArgs ==
    {[args |-> <<v>>, kwargs |-> {}] : v \in ArgVals}
        \cup {[args |-> <<>>, kwargs |-> {<<"x", "5">>}],
              [args |-> <<"5">>, kwargs |-> {<<"y", "-1">>}]}

\* What invoking a predicate (an arbitrary closure) can do: return a truthy
\* value, return a falsy value, raise TypeError, raise any other exception.
PredOutcomes == {"True", "False", "TypeError", "OtherError"}

\* What invoking the wrapped function can do: return a value, or raise.
BodyOutcomes == Results \cup {"raise"}

\* The list of conditions of function f for one phase: n opaque closures.
Conds(f, phase, n) == [k \in 1..n |-> <<f, phase, k - 1>>]

\* True for the spec arguments Python treats as true in `if spec:`.
Truthy(spec) == spec # None /\ spec # ""

ContractInfo(spec, requires, ensures, fname) ==
    [spec_id |-> spec, requires |-> requires, ensures |-> ensures,
     func_name |-> fname, func_module |-> "app"]

\* ContractError(message, spec_id, condition_type, condition_index).
ContractError(info, ctype, idx, msg) ==
    [type |-> "ContractError", spec_id |-> info.spec_id,
     condition_type |-> ctype, condition_index |-> idx, message |-> msg]

\* An exception that is not a ContractError: it carries no contract tags.
ForeignError(type) ==
    [type |-> type, spec_id |-> None, condition_type |-> "",
     condition_index |-> -1, message |-> ""]

EmptyDict == [k \in {} |-> {}]

\* _contract_registry[spec] = info
RegistryPutFirstWins(reg, spec, info) ==
    [k \in DOMAIN reg \cup {spec} |-> IF k \in DOMAIN reg THEN reg[k] ELSE info]

RegistryPut(reg, spec, info) ==
    [k \in DOMAIN reg \cup {spec} |-> IF k = spec THEN info ELSE reg[k]]

\* _contract_registry.get(spec_id): <<>> stands for None.
get_contract_for_spec(spec_id) ==
    IF spec_id \in DOMAIN registry THEN <<registry[spec_id]>> ELSE <<>>

(***************************************************************************)
(* contracts.py: the steps of one enforced call.  Each operator gives the  *)
(* wrapper's next position, index and raised exception (<<>>: none) after  *)
(* one invocation with outcome `out`.                                      *)
(***************************************************************************)
\* Where sync_wrapper goes once precondition k is the next to check.
AfterRequires(info, k) == IF k < Len(info.requires) THEN "requires" ELSE "body"

\* Where sync_wrapper goes once postcondition k is the next to check.
AfterEnsures(info, k) == IF k < Len(info.ensures) THEN "ensures" ELSE "returned"

\* _check_requires, the first invocation: condition(*args, **kwargs).
RequiresStepNoFailFast(info, k, out) ==
    CASE out \in {"True", "False"} ->
            [pc |-> AfterRequires(info, k + 1), i |-> k + 1, exc |-> <<>>]
      [] out = "TypeError" -> [pc |-> "retry", i |-> k, exc |-> <<>>]
      [] OTHER -> [pc |-> "raised", i |-> k, exc |-> <<ForeignError("ValueError")>>]

RequiresStep(info, k, out) ==
    CASE out = "True" ->
            [pc |-> AfterRequires(info, k + 1), i |-> k + 1, exc |-> <<>>]
      [] out = "False" ->
            \* ContractError is no TypeError: it leaves the try block as it is
            [pc |-> "raised", i |-> k,
             exc |-> <<ContractError(info, "requires", k, "failed")>>]
      [] out = "TypeError" -> [pc |-> "retry", i |-> k, exc |-> <<>>]
      [] OTHER ->
            \* only TypeError is caught: any other exception reaches the caller
            [pc |-> "raised", i |-> k, exc |-> <<ForeignError("ValueError")>>]

\* _check_requires, the retry after a TypeError: condition(*args).
RequiresRetryStep(info, k, out) ==
    IF out = "True"
    THEN [pc |-> AfterRequires(info, k + 1), i |-> k + 1, exc |-> <<>>]
    ELSE \* the inner ContractError and every other exception are caught by
         \* `except Exception` and raised again as ContractError
         [pc |-> "raised", i |-> k,
          exc |-> <<ContractError(info, "requires", k, "raised error")>>]

\* result = func(*args, **kwargs)
BodyStep(info, out) ==
    IF out = "raise"
    THEN [pc |-> "raised", result |-> <<>>, exc |-> <<ForeignError("BodyError")>>]
    ELSE [pc |-> AfterEnsures(info, 0), result |-> <<out>>, exc |-> <<>>]

\* _check_ensures: condition(result).
EnsuresStepNoFailFast(info, k, out) ==
    CASE out \in {"True", "False"} ->
            [pc |-> AfterEnsures(info, k + 1), i |-> k + 1, exc |-> <<>>]
      [] out = "TypeError" ->
            [pc |-> "raised", i |-> k,
             exc |-> <<ContractError(info, "ensures", k, "raised error")>>]
      [] OTHER -> [pc |-> "raised", i |-> k, exc |-> <<ForeignError("ValueError")>>]

EnsuresStep(info, k, out) ==
    CASE out = "True" ->
            [pc |-> AfterEnsures(info, k + 1), i |-> k + 1, exc |-> <<>>]
      [] out = "False" ->
            [pc |-> "raised", i |-> k,
             exc |-> <<ContractError(info, "ensures", k, "failed")>>]
      [] out = "TypeError" ->
            [pc |-> "raised", i |-> k,
             exc |-> <<ContractError(info, "ensures", k, "raised error")>>]
      [] OTHER -> [pc |-> "raised", i |-> k, exc |-> <<ForeignError("ValueError")>>]

\* The `info` the wrapper of f closes over: the ContractInfo built when f was
\* decorated.  The wrapper never reads _contract_registry.
EnforcedInfoFromRegistry(f) ==
    IF wrapped[f].spec_id \in DOMAIN registry
    THEN registry[wrapped[f].spec_id]
    ELSE ContractInfo(wrapped[f].spec_id, <<>>, <<>>, f)

EnforcedInfo(f) == wrapped[f]

\* `return result` of the wrapper.
WrapperReturnNone(res) == <<None>>

WrapperReturn(res) == res

\* One entry of the call's log: which closure was invoked, with what, what it
\* did, and whether the body's side effect was visible to it.
LogEntry(phase, index, mode, args, kwargs, out) ==
    [phase |-> phase, index |-> index, mode |-> mode, args |-> args,
     kwargs |-> kwargs, out |-> out, saw |-> sideEffect]

NoCall == [func |-> "", args |-> <<>>, kwargs |-> {}]

(***************************************************************************)
(* collector.py: text.  A string is a sequence of one-character strings.  *)
(***************************************************************************)
\* [A-Z], \d, \w and \s, over the characters the documents use.
UpperChars == {"A", "B", "I", "K", "M", "P", "S"}
LowerChars == {"a", "b", "d", "e", "i", "k", "l", "m", "n", "o", "p", "s", "t", "u", "x"}
DigitChars == {"1", "2"}
WordChars == UpperChars \cup LowerChars \cup DigitChars \cup {"_"}
SpaceChars == {" ", "\t"}

\* str.lower() on one character.
LowerChar(c) ==
    CASE c = "A" -> "a" [] c = "B" -> "b" [] c = "I" -> "i" [] c = "K" -> "k"
      [] c = "M" -> "m" [] c = "P" -> "p" [] c = "S" -> "s"
      [] OTHER -> c

\* t.lower()
LowerStr(t) == [k \in 1..Len(t) |-> LowerChar(t[k])]

\* The character at position p, "" past either end.
CharAt(str, p) == IF p >= 1 /\ p <= Len(str) THEN str[p] ELSE ""

\* The end of the longest run of characters of S that starts at p (greedy
\* X* or X+): the first position at or after p that holds no character of S.
SkipWhile(str, p, S) ==
    CHOOSE q \in p..(Len(str) + 1) :
       /\ \A k \in p..(q - 1) : str[k] \in S
       /\ q = Len(str) + 1 \/ str[q] \notin S

\* str.strip()
Strip(str) ==
    LET keep == {k \in 1..Len(str) : str[k] \notin SpaceChars}
    IN IF keep = {} THEN <<>>
       ELSE SubSeq(str, CHOOSE a \in keep : \A k \in keep : a <= k,
                        CHOOSE b \in keep : \A k \in keep : k <= b)

\* "\n".join(lines)
RECURSIVE JoinLines(_)
JoinLines(ls) ==
    IF ls = <<>> THEN <<>>
    ELSE IF Len(ls) = 1 THEN ls[1]
    ELSE ls[1] \o <<"\n">> \o JoinLines(Tail(ls))

\* content.split("\n")
RECURSIVE SplitLines(_)
SplitLines(content) ==
    LET cut == {k \in 1..Len(content) : content[k] = "\n"}
    IN IF cut = {} THEN <<content>>
       ELSE LET c == CHOOSE k \in cut : \A m \in cut : k <= m
            IN <<SubSeq(content, 1, c - 1)>>
                  \o SplitLines(SubSeq(content, c + 1, Len(content)))

\* ((?:\s*\[\w+\])*) from position p: the position after the last tag.
RECURSIVE TagsEnd(_, _)
TagsEnd(str, p) ==
    LET q == SkipWhile(str, p, SpaceChars)
        r == SkipWhile(str, q + 1, WordChars)
    IN IF CharAt(str, q) = "[" /\ r > q + 1 /\ CharAt(str, r) = "]"
       THEN TagsEnd(str, r + 1)
       ELSE p

\* SPEC_PATTERN matched at position s: <<>> when it does not match there,
\* else the three groups.  None of the greedy parts can match after giving
\* characters back, except \s* before a description that is all whitespace.
MatchAt(str, s) ==
    LET n == Len(str)
        p1 == s + 2
        p2 == SkipWhile(str, p1, UpperChars)
        p3 == SkipWhile(str, p2 + 1, DigitChars)
        p4 == p3 + 2
        p5 == TagsEnd(str, p4)
        p6 == SkipWhile(str, p5 + 1, SpaceChars)
    IN IF /\ CharAt(str, s) = "*" /\ CharAt(str, s + 1) = "*"
          /\ p2 > p1
          /\ CharAt(str, p2) = "-"
          /\ p3 > p2 + 1
          /\ CharAt(str, p3) = "*" /\ CharAt(str, p3 + 1) = "*"
          /\ CharAt(str, p5) = ":"
          /\ p6 <= n \/ p6 > p5 + 1
       THEN <<[g1 |-> SubSeq(str, p1, p3 - 1),
               g2 |-> SubSeq(str, p4, p5 - 1),
               g3 |-> IF p6 <= n THEN SubSeq(str, p6, n) ELSE SubSeq(str, n, n)]>>
       ELSE <<>>

\* SPEC_PATTERN.search(line): the leftmost match, <<>> for None.
Search(line) ==
    LET S == {s \in 1..Len(line) : MatchAt(line, s) # <<>>}
    IN IF S = {} THEN <<>>
       ELSE MatchAt(line, CHOOSE s \in S : \A t \in S : s <= t)

\* TAG_PATTERN.findall(tags_str), scanning from position p.
RECURSIVE FindTags(_, _)
FindTags(str, p) ==
    LET S == {q \in p..Len(str) :
                /\ str[q] = "["
                /\ SkipWhile(str, q + 1, WordChars) > q + 1
                /\ CharAt(str, SkipWhile(str, q + 1, WordChars)) = "]"}
    IN IF S = {} THEN <<>>
       ELSE LET q == CHOOSE a \in S : \A b \in S : a <= b
                r == SkipWhile(str, q + 1, WordChars)
            IN <<SubSeq(str, q + 1, r - 1)>> \o FindTags(str, r + 1)

SKIP_TAG == <<"s", "k", "i", "p">>
MANUAL_TAG == <<"m", "a", "n", "u", "a", "l">>

\* The verification type of a line's tags (priority: skip > manual > test).
VerificationTypeManualFirst(tags_str) ==
    LET tags == IF tags_str # <<>> THEN FindTags(tags_str, 1) ELSE <<>>
        tags_lower == {LowerStr(tags[k]) : k \in 1..Len(tags)}
    IN IF MANUAL_TAG \in tags_lower THEN "MANUAL"
       ELSE IF SKIP_TAG \in tags_lower THEN "SKIP"
       ELSE "TEST"

VerificationTypeOf(tags_str) ==
    LET tags == IF tags_str # <<>> THEN FindTags(tags_str, 1) ELSE <<>>
        tags_lower == {LowerStr(tags[k]) : k \in 1..Len(tags)}
    IN IF SKIP_TAG \in tags_lower THEN "SKIP"
       ELSE IF MANUAL_TAG \in tags_lower THEN "MANUAL"
       ELSE "TEST"

\* match.group(3).strip()
DescriptionOf(g3) == Strip(g3)

\* enumerate(lines, 1): the number of the line at index k.
LineNumberZeroBased(k) == k - 1

LineNumber(k) == k

\* One iteration of the loop of _parse_spec_file: the records line k of the
\* file yields (none or one).
ParseLineAt(file_path, ls, k) ==
    LET match == Search(ls[k])
    IN IF match = <<>> THEN <<>>
       ELSE <<[id |-> match[1].g1,
               description |-> DescriptionOf(match[1].g3),
               source_file |-> file_path,
               source_line |-> LineNumber(k),
               verification_type |-> VerificationTypeOf(match[1].g2)]>>

\* list(_parse_spec_file(file_path)) for a file with these lines, from line k.
RECURSIVE ParseFrom(_, _, _)
ParseFrom(file_path, ls, k) ==
    IF k > Len(ls) THEN <<>>
    ELSE ParseLineAt(file_path, ls, k) \o ParseFrom(file_path, ls, k + 1)

(***************************************************************************)
(* collector.py: the documents parsed.  A line is written as its parts:    *)
(* lead text, opening marker, ID text, closing marker, tags (each with the *)
(* whitespace before it), the text between the tags and the colon, the     *)
(* colon, and everything after the colon.                                  *)
(***************************************************************************)
DocLines ==
    {[lead |-> <<"-", " ">>, open |-> <<"*", "*">>, id |-> <<"A", "-", "1">>, close |-> <<"*", "*">>,
      tags |-> <<>>,
      gap |-> <<>>, colon |-> <<":">>, desc |-> <<" ", "d">>],
     [lead |-> <<>>, open |-> <<"*", "*">>, id |-> <<"A", "B", "-", "1", "2">>, close |-> <<"*", "*">>,
      tags |-> <<>>,
      gap |-> <<>>, colon |-> <<":">>, desc |-> <<" ", "d", " ", "e">>],
     [lead |-> <<"-", " ">>, open |-> <<"*", "*">>, id |-> <<"A", "-", "1">>, close |-> <<"*", "*">>,
      tags |-> <<>>,
      gap |-> <<>>, colon |-> <<":">>, desc |-> <<" ", "d", " ">>],
     [lead |-> <<>>, open |-> <<"*", "*">>, id |-> <<"A", "-", "1">>, close |-> <<"*", "*">>,
      tags |-> <<>>,
      gap |-> <<>>, colon |-> <<":">>, desc |-> <<" ">>],
     [lead |-> <<>>, open |-> <<"*", "*">>, id |-> <<"A", "-", "1">>, close |-> <<"*", "*">>,
      tags |-> <<>>,
      gap |-> <<>>, colon |-> <<":">>, desc |-> <<>>],
     [lead |-> <<>>, open |-> <<"*", "*">>, id |-> <<"A", "-", "1">>, close |-> <<"*", "*">>,
      tags |-> <<>>,
      gap |-> <<>>, colon |-> <<":">>, desc |-> <<"d">>],
     [lead |-> <<>>, open |-> <<"*", "*">>, id |-> <<"A", "-", "1">>, close |-> <<"*", "*">>,
      tags |-> <<>>,
      gap |-> <<>>, colon |-> <<>>, desc |-> <<" ", "d">>],
     [lead |-> <<>>, open |-> <<"*", "*">>, id |-> <<"A", "-", "1">>, close |-> <<"*", "*">>,
      tags |-> <<>>,
      gap |-> <<" ">>, colon |-> <<":">>, desc |-> <<" ", "d">>],
     [lead |-> <<>>, open |-> <<"*", "*">>, id |-> <<"a", "-", "1">>, close |-> <<"*", "*">>,
      tags |-> <<>>,
      gap |-> <<>>, colon |-> <<":">>, desc |-> <<" ", "d">>],
     [lead |-> <<>>, open |-> <<"*", "*">>, id |-> <<"A", "-">>, close |-> <<"*", "*">>,
      tags |-> <<>>,
      gap |-> <<>>, colon |-> <<":">>, desc |-> <<" ", "d">>],
     [lead |-> <<>>, open |-> <<"*">>, id |-> <<"A", "-", "1">>, close |-> <<"*">>,
      tags |-> <<>>,
      gap |-> <<>>, colon |-> <<":">>, desc |-> <<" ", "d">>],
     [lead |-> <<>>, open |-> <<>>, id |-> <<>>, close |-> <<>>,
      tags |-> <<>>,
      gap |-> <<>>, colon |-> <<>>, desc |-> <<>>],
     [lead |-> <<"#", " ", "x">>, open |-> <<>>, id |-> <<>>, close |-> <<>>,
      tags |-> <<>>,
      gap |-> <<>>, colon |-> <<>>, desc |-> <<>>],
     [lead |-> <<>>, open |-> <<"*", "*">>, id |-> <<"A", "-", "1">>, close |-> <<"*", "*">>,
      tags |-> <<>>,
      gap |-> <<>>, colon |-> <<":">>, desc |-> <<" ", "d", " ", "*", "*", "B", "-", "2", "*", "*", ":", " ", "e">>],
     [lead |-> <<"*", "*", "a", "-", "1", "*", "*", " ">>, open |-> <<"*", "*">>, id |-> <<"B", "-", "2">>, close |-> <<"*", "*">>,
      tags |-> <<>>,
      gap |-> <<>>, colon |-> <<":">>, desc |-> <<" ", "e">>],
     [lead |-> <<>>, open |-> <<"*", "*">>, id |-> <<"A", "-", "1">>, close |-> <<"*", "*">>,
      tags |-> <<[pre |-> <<" ">>, word |-> <<"s", "k", "i", "p">>]>>,
      gap |-> <<>>, colon |-> <<":">>, desc |-> <<" ", "d">>],
     [lead |-> <<>>, open |-> <<"*", "*">>, id |-> <<"A", "-", "1">>, close |-> <<"*", "*">>,
      tags |-> <<[pre |-> <<" ">>, word |-> <<"m", "a", "n", "u", "a", "l">>]>>,
      gap |-> <<>>, colon |-> <<":">>, desc |-> <<" ", "d">>],
     [lead |-> <<>>, open |-> <<"*", "*">>, id |-> <<"A", "-", "1">>, close |-> <<"*", "*">>,
      tags |-> <<[pre |-> <<" ">>, word |-> <<"m", "a", "n", "u", "a", "l">>], [pre |-> <<" ">>, word |-> <<"s", "k", "i", "p">>]>>,
      gap |-> <<>>, colon |-> <<":">>, desc |-> <<" ", "d">>],
     [lead |-> <<>>, open |-> <<"*", "*">>, id |-> <<"A", "-", "1">>, close |-> <<"*", "*">>,
      tags |-> <<[pre |-> <<" ">>, word |-> <<"s", "k", "i", "p">>], [pre |-> <<" ">>, word |-> <<"m", "a", "n", "u", "a", "l">>]>>,
      gap |-> <<>>, colon |-> <<":">>, desc |-> <<" ", "d">>],
     [lead |-> <<>>, open |-> <<"*", "*">>, id |-> <<"B", "-", "2">>, close |-> <<"*", "*">>,
      tags |-> <<[pre |-> <<>>, word |-> <<"S", "K", "I", "P">>]>>,
      gap |-> <<>>, colon |-> <<":">>, desc |-> <<" ", "d">>],
     [lead |-> <<>>, open |-> <<"*", "*">>, id |-> <<"A", "-", "1">>, close |-> <<"*", "*">>,
      tags |-> <<[pre |-> <<" ">>, word |-> <<"M", "a", "n", "u", "a", "l">>]>>,
      gap |-> <<>>, colon |-> <<":">>, desc |-> <<" ", "d">>],
     [lead |-> <<>>, open |-> <<"*", "*">>, id |-> <<"A", "-", "1">>, close |-> <<"*", "*">>,
      tags |-> <<[pre |-> <<" ">>, word |-> <<"t", "o", "d", "o">>]>>,
      gap |-> <<>>, colon |-> <<":">>, desc |-> <<" ", "d">>],
     [lead |-> <<>>, open |-> <<"*", "*">>, id |-> <<"A", "-", "1">>, close |-> <<"*", "*">>,
      tags |-> <<[pre |-> <<" ">>, word |-> <<"t", "o", "d", "o">>], [pre |-> <<"\t">>, word |-> <<"m", "a", "n", "u", "a", "l">>]>>,
      gap |-> <<>>, colon |-> <<":">>, desc |-> <<" ", "d">>],
     [lead |-> <<>>, open |-> <<"*", "*">>, id |-> <<"B", "-", "2">>, close |-> <<"*", "*">>,
      tags |-> <<[pre |-> <<>>, word |-> <<"s", "k", "i", "p">>], [pre |-> <<>>, word |-> <<"t", "o", "d", "o">>]>>,
      gap |-> <<>>, colon |-> <<":">>, desc |-> <<" ", "d">>],
     [lead |-> <<>>, open |-> <<"*", "*">>, id |-> <<"A", "-", "1">>, close |-> <<"*", "*">>,
      tags |-> <<[pre |-> <<" ">>, word |-> <<"s", "k", " ", "i", "p">>]>>,
      gap |-> <<>>, colon |-> <<":">>, desc |-> <<" ", "d">>],
     [lead |-> <<>>, open |-> <<"*", "*">>, id |-> <<"A", "-", "1">>, close |-> <<"*", "*">>,
      tags |-> <<[pre |-> <<" ">>, word |-> <<>>]>>,
      gap |-> <<>>, colon |-> <<":">>, desc |-> <<" ", "d">>],
     [lead |-> <<>>, open |-> <<"*", "*">>, id |-> <<"A", "-", "1">>, close |-> <<"*", "*">>,
      tags |-> <<[pre |-> <<" ">>, word |-> <<"m", "a", "n", "u", "a", "l", "_", "s", "k", "i", "p">>]>>,
      gap |-> <<>>, colon |-> <<":">>, desc |-> <<" ", "d">>]}

RECURSIVE RenderTags(_)
RenderTags(tags) ==
    IF tags = <<>> THEN <<>>
    ELSE tags[1].pre \o <<"[">> \o tags[1].word \o <<"]">> \o RenderTags(Tail(tags))

\* The text of a line.
Render(l) ==
    l.lead \o l.open \o l.id \o l.close \o RenderTags(l.tags) \o l.gap \o l.colon \o l.desc

\* The documents: up to MaxLines lines.
Docs == UNION {[1..n -> DocLines] : n \in 0..MaxLines}

\* file_path.read_text() of the document.
Content(d) == JoinLines([k \in 1..Len(d) |-> Render(d[k])])

\* The path of the one file SpecParse parses.
ParsedPath == <<"spec-a.md">>

(***************************************************************************)
(* collector.py: the directory tree collected.  A file has the directories *)
(* between specs_dir and it, a name, and either the document it holds or   *)
(* no readable content (read_text() raises).                               *)
(***************************************************************************)
FileNames == {<<"s", "p", "e", "c", "-", "a", ".", "m", "d">>,
              <<"R", "E", "A", "D", "M", "E", ".", "m", "d">>,
              <<"_", "i", "n", "d", "e", "x", ".", "m", "d">>,
              <<"s", "p", "e", "c", "-", "a", ".", "t", "x", "t">>}

FileDirs == {<<>>, <<"sub", "deep">>}

FileDocs ==
    {<<[lead |-> <<"-", " ">>, open |-> <<"*", "*">>, id |-> <<"A", "-", "1">>, close |-> <<"*", "*">>, tags |-> <<>>, gap |-> <<>>, colon |-> <<":">>, desc |-> <<" ", "d">>]>>,
     <<[lead |-> <<"#", " ", "x">>, open |-> <<>>, id |-> <<>>, close |-> <<>>, tags |-> <<>>, gap |-> <<>>, colon |-> <<>>, desc |-> <<>>],
       [lead |-> <<>>, open |-> <<"*", "*">>, id |-> <<"B", "-", "2">>, close |-> <<"*", "*">>, tags |-> <<[pre |-> <<" ">>, word |-> <<"m", "a", "n", "u", "a", "l">>]>>, gap |-> <<>>, colon |-> <<":">>, desc |-> <<" ", "d">>]>>}

CandidateFiles ==
    {[dir |-> d, name |-> n, readable |-> TRUE, content |-> c] :
        d \in FileDirs, n \in FileNames, c \in FileDocs}
    \cup {[dir |-> d, name |-> n, readable |-> FALSE, content |-> <<>>] :
        d \in FileDirs, n \in FileNames}

\* str.startswith / the suffix test of a glob pattern "*<suffix>".
StartsWith(str, prefix) ==
    Len(prefix) <= Len(str) /\ SubSeq(str, 1, Len(prefix)) = prefix

EndsWith(str, suffix) ==
    Len(suffix) <= Len(str)
        /\ SubSeq(str, Len(str) - Len(suffix) + 1, Len(str)) = suffix

\* specs_path.glob("**/*.md"): the files named *.md, at any depth.
GlobMd(files) == {f \in files : EndsWith(f.name, <<".", "m", "d">>)}

\* md_file.name.startswith("_")
IsInternal(f) == StartsWith(f.name, <<"_">>)

\* The Path of a file.
PathOf(f) == [dir |-> f.dir, name |-> f.name]

(***************************************************************************)
(* Initial states of the parts.                                            *)
(***************************************************************************)
ContractInit ==
    /\ wrapped = EmptyDict
    /\ registry = EmptyDict
    /\ regLog = <<>>
    /\ pc = "idle"
    /\ call = NoCall
    /\ i = 0
    /\ log = <<>>
    /\ sideEffect = FALSE
    /\ result = <<>>
    /\ returned = <<>>
    /\ exc = <<>>

ParseIdle ==
    /\ doc = <<>>
    /\ lines = <<>>
    /\ line_num = 0
    /\ records = <<>>
    /\ ppc = "idle"

CollectIdle ==
    /\ tree = {}
    /\ todo = {}
    /\ specs = <<>>
    /\ spec_ids = {}
    /\ cpc = "idle"

TestIdle ==
    /\ spec_registry = EmptyDict
    /\ testLog = <<>>

\* VerificationReport(): no outcome yet, every counter zero.
EmptyReport ==
    [results |-> <<>>, passing |-> 0, failing |-> 0, missing |-> 0,
     manual |-> 0, skipped |-> 0, total |-> 0]

VerifyIdle ==
    /\ reqs = <<>>
    /\ report = EmptyReport
    /\ vpc = "idle"
    /\ exit_code = <<>>

SnapIdle ==
    /\ snapshot = <<>>
    /\ observed = <<>>

(***************************************************************************)
(* contracts.py: actions.                                                  *)
(***************************************************************************)
\* contract(spec, requires, ensures)(func): the decorator, at load time.
Decorate(spec, nreq, nens) ==
    /\ pc = "idle"
    /\ Cardinality(DOMAIN wrapped) < MaxFuncs
    /\ LET f == FuncSeq[Cardinality(DOMAIN wrapped) + 1]
           info == ContractInfo(spec, Conds(f, "requires", nreq),
                                Conds(f, "ensures", nens), f)
       IN /\ registry' = IF Truthy(spec) THEN RegistryPut(registry, spec, info)
                                         ELSE registry
          /\ regLog' = IF Truthy(spec) THEN Append(regLog, <<spec, info>>) ELSE regLog
          /\ wrapped' = [g \in DOMAIN wrapped \cup {f} |->
                            IF g = f THEN info ELSE wrapped[g]]
    /\ UNCHANGED <<pc, call, i, log, sideEffect, result, returned, exc>>
    /\ UNCHANGED <<parseVars, collectVars, testVars, verifyVars, snapVars>>

\* clear_contract_registry()
ClearRegistry ==
    /\ pc = "idle"
    /\ registry' = EmptyDict
    /\ regLog' = <<>>
    /\ UNCHANGED <<wrapped, pc, call, i, log, sideEffect, result, returned, exc>>
    /\ UNCHANGED <<parseVars, collectVars, testVars, verifyVars, snapVars>>

\* sync_wrapper(*args, **kwargs) is entered.
Call(f, a) ==
    /\ pc = "idle"
    /\ f \in DOMAIN wrapped
    /\ call' = [func |-> f, args |-> a.args, kwargs |-> a.kwargs]
    /\ pc' = AfterRequires(EnforcedInfo(f), 0)
    /\ i' = 0
    /\ log' = <<>>
    /\ sideEffect' = FALSE
    /\ result' = <<>>
    /\ returned' = <<>>
    /\ exc' = <<>>
    /\ UNCHANGED <<wrapped, registry, regLog, parseVars, collectVars, testVars, verifyVars, snapVars>>

\* _check_requires: condition(*args, **kwargs) for precondition i.
CheckRequires(out) ==
    /\ pc = "requires"
    /\ LET st == RequiresStep(EnforcedInfo(call.func), i, out)
       IN /\ pc' = st.pc
          /\ i' = IF st.pc = "body" THEN 0 ELSE st.i
          /\ exc' = st.exc
    /\ log' = Append(log, LogEntry("requires", i, "full", call.args, call.kwargs, out))
    /\ UNCHANGED <<wrapped, registry, regLog, call, sideEffect, result, returned>>
    /\ UNCHANGED <<parseVars, collectVars, testVars, verifyVars, snapVars>>

\* _check_requires: condition(*args), after the first invocation raised TypeError.
RetryRequires(out) ==
    /\ pc = "retry"
    /\ LET st == RequiresRetryStep(EnforcedInfo(call.func), i, out)
       IN /\ pc' = st.pc
          /\ i' = IF st.pc = "body" THEN 0 ELSE st.i
          /\ exc' = st.exc
    /\ log' = Append(log, LogEntry("requires", i, "positional", call.args, {}, out))
    /\ UNCHANGED <<wrapped, registry, regLog, call, sideEffect, result, returned>>
    /\ UNCHANGED <<parseVars, collectVars, testVars, verifyVars, snapVars>>

\* result = func(*args, **kwargs); with no postcondition, `return result`.
CallFunc(out) ==
    /\ pc = "body"
    /\ LET st == BodyStep(EnforcedInfo(call.func), out)
       IN /\ pc' = st.pc
          /\ result' = st.result
          /\ exc' = st.exc
          /\ returned' = IF st.pc = "returned" THEN WrapperReturn(st.result) ELSE <<>>
    /\ sideEffect' = TRUE
    /\ log' = Append(log, LogEntry("body", -1, "call", call.args, call.kwargs, out))
    /\ UNCHANGED <<wrapped, registry, regLog, call, i>>
    /\ UNCHANGED <<parseVars, collectVars, testVars, verifyVars, snapVars>>

\* _check_ensures: condition(result) for postcondition i; after the last one,
\* `return result`.
CheckEnsures(out) ==
    /\ pc = "ensures"
    /\ LET st == EnsuresStep(EnforcedInfo(call.func), i, out)
       IN /\ pc' = st.pc
          /\ i' = st.i
          /\ exc' = st.exc
          /\ returned' = IF st.pc = "returned" THEN WrapperReturn(result) ELSE <<>>
    /\ log' = Append(log, LogEntry("ensures", i, "result", result, {}, out))
    /\ UNCHANGED <<wrapped, registry, regLog, call, sideEffect, result>>
    /\ UNCHANGED <<parseVars, collectVars, testVars, verifyVars, snapVars>>

\* The caller goes on after the call returned or raised.
Finish ==
    /\ pc \in {"returned", "raised"}
    /\ pc' = "idle"
    /\ call' = NoCall
    /\ i' = 0
    /\ log' = <<>>
    /\ sideEffect' = FALSE
    /\ result' = <<>>
    /\ returned' = <<>>
    /\ exc' = <<>>
    /\ UNCHANGED <<wrapped, registry, regLog, parseVars, collectVars, testVars, verifyVars, snapVars>>

\* The one function of Spec is decorated.
DecorateOne ==
    /\ wrapped = EmptyDict
    /\ \E spec \in SpecArgs : \E nreq \in 0..MaxConds : \E nens \in 0..MaxConds :
          Decorate(spec, nreq, nens)

\* A function of SpecRegistry is decorated.
DecorateNext ==
    \E spec \in SpecArgs : \E nreq \in {0, 1} : Decorate(spec, nreq, 1 - nreq)

Init ==
    ContractInit /\ ParseIdle /\ CollectIdle /\ TestIdle /\ VerifyIdle /\ SnapIdle

Next ==
    \/ DecorateOne
    \/ ClearRegistry
    \/ \E f \in DOMAIN wrapped : \E a \in CallArgs : Call(f, a)
    \/ \E out \in PredOutcomes : CheckRequires(out)
    \/ \E out \in PredOutcomes : RetryRequires(out)
    \/ \E out \in BodyOutcomes : CallFunc(out)
    \/ \E out \in PredOutcomes : CheckEnsures(out)
    \/ Finish

Spec == Init /\ [][Next]_vars

NextRegistry ==
    \/ DecorateNext
    \/ ClearRegistry

SpecRegistry == Init /\ [][NextRegistry]_vars

(***************************************************************************)
(* Claims about contract enforcement (Spec).                               *)
(***************************************************************************)
\* The log positions before n where a predicate of `phase` returned true.
Passed(phase, n) == {m \in 1..(n - 1) : log[m].phase = phase /\ log[m].out = "True"}

\* The log positions where the wrapped body was invoked.
BodyRuns == {m \in 1..Len(log) : log[m].phase = "body"}

\* The exception that reached the caller is a ContractError with these tags.
RaisedContractError(ctype, idx) ==
    /\ pc = "raised"
    /\ Len(exc) = 1
    /\ exc[1].type = "ContractError"
    /\ exc[1].spec_id = wrapped[call.func].spec_id
    /\ exc[1].condition_type = ctype
    /\ exc[1].condition_index = idx

\* C1: preconditions are invoked in registration order with the call's
\* arguments and before the body (precondition k only after 0..k-1 passed, the
\* body only after all passed); when precondition k returns false the call
\* raises ContractError with the contract's spec id, condition type
\* "requires" and index k, nothing is invoked after it, and the body never runs.
C1_PreconditionFailFast ==
    /\ \A n \in 1..Len(log) :
          log[n].phase = "requires" =>
             /\ \A m \in 1..(n - 1) : log[m].phase = "requires"
             /\ log[n].index = Cardinality(Passed("requires", n))
             /\ log[n].index < Len(wrapped[call.func].requires)
             /\ log[n].args = call.args
             /\ log[n].out = "False" =>
                   /\ n = Len(log)
                   /\ RaisedContractError("requires", log[n].index)
                   /\ BodyRuns = {}
                   /\ returned = <<>>
    /\ \A n \in BodyRuns :
          Cardinality(Passed("requires", n)) = Len(wrapped[call.func].requires)

\* C1 witness: the second of two preconditions returned false for a contract
\* linked to AUTH-001.
C1_Witness ==
    /\ pc = "raised"
    /\ Len(log) >= 2
    /\ log[Len(log)].phase = "requires"
    /\ log[Len(log)].out = "False"
    /\ log[Len(log)].index = 1
    /\ exc[1].spec_id = "AUTH-001"

\* C2: a postcondition is invoked only after every precondition passed and the
\* body returned, with the body's side effect visible, in registration order,
\* and with the produced result as its only argument; when postcondition j
\* returns false the call raises ContractError with condition type "ensures"
\* and index j, nothing is invoked after it, and the caller receives no result.
C2_PostconditionAfterBody ==
    \A n \in 1..Len(log) :
       log[n].phase = "ensures" =>
          /\ \E m \in 1..(n - 1) :
                /\ log[m].phase = "body"
                /\ log[m].out \in Results
                /\ log[n].args = <<log[m].out>>
          /\ log[n].saw
          /\ log[n].kwargs = {}
          /\ Cardinality(Passed("requires", n)) = Len(wrapped[call.func].requires)
          /\ log[n].index = Cardinality(Passed("ensures", n))
          /\ log[n].index < Len(wrapped[call.func].ensures)
          /\ log[n].out = "False" =>
                /\ n = Len(log)
                /\ RaisedContractError("ensures", log[n].index)
                /\ returned = <<>>

\* C2 witness: the second of two postconditions returned false.
C2_Witness ==
    /\ pc = "raised"
    /\ Len(log) >= 3
    /\ log[Len(log)].phase = "ensures"
    /\ log[Len(log)].out = "False"
    /\ log[Len(log)].index = 1

\* C3 (as claimed): when the last predicate invoked raised an exception of
\* any kind, the caller receives a ContractError tagged with that predicate's
\* phase and index, and for a precondition the body has not run.
C3_PredicateErrorWrapped ==
    (/\ pc = "raised"
     /\ log # <<>>
     /\ log[Len(log)].phase \in {"requires", "ensures"}
     /\ log[Len(log)].out \in {"TypeError", "OtherError"})
        => /\ RaisedContractError(log[Len(log)].phase, log[Len(log)].index)
           /\ log[Len(log)].phase = "requires" => BodyRuns = {}

\* C4: a call that returned, every predicate invocation of which returned
\* true, invoked each precondition and each postcondition exactly once, the
\* body exactly once with the caller's arguments, and handed the caller the
\* body's result.
C4_TransparentWhenAllPass ==
    (/\ pc = "returned"
     /\ \A n \in 1..Len(log) : log[n].phase # "body" => log[n].out = "True")
        => LET info == wrapped[call.func]
               At(phase, k) == {n \in 1..Len(log) :
                                   log[n].phase = phase /\ log[n].index = k}
           IN /\ \A k \in 0..(Len(info.requires) - 1) :
                    Cardinality(At("requires", k)) = 1
              /\ \A k \in 0..(Len(info.ensures) - 1) :
                    Cardinality(At("ensures", k)) = 1
              /\ Len(log) = Len(info.requires) + 1 + Len(info.ensures)
              /\ Cardinality(BodyRuns) = 1
              /\ \A n \in BodyRuns :
                    /\ log[n].args = call.args
                    /\ log[n].kwargs = call.kwargs
                    /\ returned = <<log[n].out>>

\* C4 witness: a call with two preconditions and two postconditions, all
\* true at their only invocation, returned 10.
C4_Witness ==
    /\ pc = "returned"
    /\ Len(log) = 5
    /\ \A n \in 1..Len(log) : log[n].phase # "body" => log[n].out = "True"
    /\ returned = <<"10">>

(***************************************************************************)
(* Claims about the contract registry (SpecRegistry).                      *)
(***************************************************************************)
\* The contract most recently registered under id since the last clear.
LastRegistered(id) ==
    LET S == {n \in 1..Len(regLog) : regLog[n][1] = id}
    IN IF S = {} THEN <<>>
       ELSE <<regLog[CHOOSE n \in S : \A m \in S : m <= n][2]>>

\* C5: get_contract_for_spec(id) is the contract of the most recent
\* registration under id since the last clear, as registered (its own
\* function, requires and ensures), and None when there was none; every entry
\* of the registry is filed under its own spec id.
C5_LastRegistrationWins ==
    /\ \A id \in SpecArgs \cup {"AUTH-003"} :
          get_contract_for_spec(id) = LastRegistered(id)
    /\ \A id \in DOMAIN registry : registry[id].spec_id = id

\* C5 witness: an ID registered twice since the last clear.
C5_Witness ==
    \E id \in DOMAIN registry :
       Cardinality({n \in 1..Len(regLog) : regLog[n][1] = id}) >= 2

(***************************************************************************)
(* collector.py: _parse_spec_file, one loop iteration per step.            *)
(***************************************************************************)
ParseInit ==
    /\ doc \in Docs
    /\ lines = <<>>
    /\ line_num = 0
    /\ records = <<>>
    /\ ppc = "start"

\* content = file_path.read_text(); lines = content.split("\n")
ReadFile ==
    /\ ppc = "start"
    /\ lines' = SplitLines(Content(doc))
    /\ line_num' = 1
    /\ ppc' = "loop"
    /\ UNCHANGED <<doc, records, contractVars, collectVars, testVars, verifyVars, snapVars>>

\* for line_num, line in enumerate(lines, 1): one iteration.
ParseLine ==
    /\ ppc = "loop"
    /\ line_num <= Len(lines)
    /\ records' = records \o ParseLineAt(ParsedPath, lines, line_num)
    /\ line_num' = line_num + 1
    /\ ppc' = IF line_num + 1 > Len(lines) THEN "done" ELSE "loop"
    /\ UNCHANGED <<doc, lines, contractVars, collectVars, testVars, verifyVars, snapVars>>

InitParse ==
    ContractInit /\ ParseInit /\ CollectIdle /\ TestIdle /\ VerifyIdle /\ SnapIdle

NextParse ==
    \/ ReadFile
    \/ ParseLine

SpecParse == InitParse /\ [][NextParse]_vars

(***************************************************************************)
(* Claims about the extractor (SpecParse), stated on the document as it    *)
(* was written.                                                            *)
(***************************************************************************)
\* One or more uppercase letters, a hyphen, one or more digits.
IdWellFormed(id) ==
    \E h \in 2..(Len(id) - 1) :
       /\ id[h] = "-"
       /\ \A k \in 1..(h - 1) : id[k] \in UpperChars
       /\ \A k \in (h + 1)..Len(id) : id[k] \in DigitChars

\* Optional whitespace and a bracketed word.
TagWellFormed(t) ==
    /\ \A k \in 1..Len(t.pre) : t.pre[k] \in SpaceChars
    /\ t.word # <<>>
    /\ \A k \in 1..Len(t.word) : t.word[k] \in WordChars

\* The line is a bold ID, zero or more bracketed tags, a colon directly after
\* them, and a description of at least one character.
MatchesPattern(l) ==
    /\ l.open = <<"*", "*">>
    /\ l.close = <<"*", "*">>
    /\ IdWellFormed(l.id)
    /\ \A k \in 1..Len(l.tags) : TagWellFormed(l.tags[k])
    /\ l.gap = <<>>
    /\ l.colon = <<":">>
    /\ l.desc # <<>>

\* The description group of a matching line: what follows the colon and the
\* whitespace after it, to the end of the line (the last character of the
\* line when only whitespace follows the colon).
DescGroup(l) ==
    LET white == {k \in 0..Len(l.desc) : \A m \in 1..k : l.desc[m] \in SpaceChars}
        w == CHOOSE k \in white : \A m \in white : m <= k
    IN IF w < Len(l.desc) THEN SubSeq(l.desc, w + 1, Len(l.desc))
       ELSE SubSeq(l.desc, Len(l.desc), Len(l.desc))

\* The leading and trailing whitespace of a text removed.
Trimmed(t) ==
    LET solid == {k \in 1..Len(t) : t[k] \notin SpaceChars}
    IN IF solid = {} THEN <<>>
       ELSE SubSeq(t, CHOOSE a \in solid : \A k \in solid : a <= k,
                      CHOOSE b \in solid : \A k \in solid : k <= b)

\* (ID, description, line number) of the records expected of lines k..n of
\* document d, the description trimmed or as matched.
RECURSIVE ExpectedFrom(_, _, _, _)
ExpectedFrom(d, k, n, trim) ==
    IF k > n THEN <<>>
    ELSE (IF MatchesPattern(d[k])
          THEN <<[id |-> d[k].id,
                  description |-> IF trim THEN Trimmed(DescGroup(d[k]))
                                          ELSE DescGroup(d[k]),
                  source_line |-> k]>>
          ELSE <<>>) \o ExpectedFrom(d, k + 1, n, trim)

\* (ID, description, line number) of the records yielded so far.
Yielded ==
    [k \in 1..Len(records) |->
        [id |-> records[k].id, description |-> records[k].description,
         source_line |-> records[k].source_line]]

\* The number of lines of the document the loop has been through.
LinesDone == IF Len(doc) < line_num - 1 THEN Len(doc) ELSE line_num - 1

\* C6 (as claimed): the records yielded are, in line order, one per line that
\* matches the pattern and none for any other line, each with the line's ID,
\* its description group as matched, and its 1-based line number.
C6_RecordPerMatchingLine ==
    ppc \in {"loop", "done"} => Yielded = ExpectedFrom(doc, 1, LinesDone, FALSE)

\* C6 (amended): the same, the description being the matched description
\* group with its leading and trailing whitespace removed.
C6_RecordPerMatchingLineTrimmed ==
    ppc \in {"loop", "done"} => Yielded = ExpectedFrom(doc, 1, LinesDone, TRUE)

\* C6 witness: a two-line document whose first line does not match and whose
\* second line matches with whitespace at the end of its description.
C6_Witness ==
    /\ ppc = "done"
    /\ Len(doc) = 2
    /\ ~MatchesPattern(doc[1])
    /\ MatchesPattern(doc[2])
    /\ Len(records) = 1
    /\ records[1].source_line = 2
    /\ records[1].description # DescGroup(doc[2])

\* The tags of a line, lower-cased, as a set (their order forgotten).
TagWords(l) == {LowerStr(l.tags[k].word) : k \in 1..Len(l.tags)}

\* C7: every record's verification type is SKIP when some tag of its line is
\* "skip" ignoring case, else MANUAL when some tag is "manual" ignoring case,
\* else TEST: a function of the set of tags, whatever their order; and every
\* line that matches the pattern, whatever its tags, has its record.
C7_TagPriority ==
    /\ \A k \in 1..Len(records) :
          LET words == TagWords(doc[records[k].source_line])
          IN records[k].verification_type =
                IF <<"s", "k", "i", "p">> \in words THEN "SKIP"
                ELSE IF <<"m", "a", "n", "u", "a", "l">> \in words THEN "MANUAL"
                ELSE "TEST"
    /\ ppc \in {"loop", "done"} =>
          \A n \in 1..LinesDone :
             MatchesPattern(doc[n]) => \E k \in 1..Len(records) : records[k].source_line = n

\* C7 witness: a line tagged [manual] then [skip] was classified SKIP, and a
\* line with an unrecognized tag before [manual] was classified MANUAL.
C7_Witness ==
    /\ ppc = "done"
    /\ Len(records) = 2
    /\ Len(doc[1].tags) = 2
    /\ LowerStr(doc[1].tags[1].word) = <<"m", "a", "n", "u", "a", "l">>
    /\ LowerStr(doc[1].tags[2].word) = <<"s", "k", "i", "p">>
    /\ records[1].verification_type = "SKIP"
    /\ Len(doc[2].tags) = 2
    /\ <<"m", "a", "n", "u", "a", "l">> \in TagWords(doc[2])
    /\ <<"s", "k", "i", "p">> \notin TagWords(doc[2])
    /\ records[2].verification_type = "MANUAL"

(***************************************************************************)
(* collector.py: collect_specs and collect_spec_ids, one file per step.    *)
(***************************************************************************)
\* A file is written under specs_dir before the collection.
CreateFile(f) ==
    /\ cpc = "idle"
    /\ Cardinality(tree) < MaxFiles
    /\ \A g \in tree : PathOf(g) # PathOf(f)
    /\ tree' = tree \cup {f}
    /\ UNCHANGED <<todo, specs, spec_ids, cpc, contractVars, parseVars, testVars, verifyVars, snapVars>>

\* collect_specs(specs_dir) is entered: specs = [], and glob lists the files.
\* (A specs_dir that does not exist returns [] as an empty one does.)
StartCollect ==
    /\ cpc = "idle"
    /\ specs' = <<>>
    /\ todo' = GlobMd(tree)
    /\ cpc' = IF GlobMd(tree) = {} THEN "done" ELSE "glob"
    /\ UNCHANGED <<tree, spec_ids, contractVars, parseVars, testVars, verifyVars, snapVars>>

\* One iteration of `for md_file in specs_path.glob("**/*.md")`, in whatever
\* order glob produces the files; after the last one, `return specs`.
CollectFile(f) ==
    /\ cpc = "glob"
    /\ f \in todo
    /\ todo' = todo \ {f}
    /\ IF IsInternal(f)
       THEN /\ specs' = specs
            /\ cpc' = IF todo' = {} THEN "done" ELSE "glob"
       ELSE IF ~f.readable
       THEN \* read_text() raises, and nothing catches it
            /\ specs' = specs
            /\ cpc' = "raised"
       ELSE /\ specs' = specs \o ParseFrom(PathOf(f), SplitLines(Content(f.content)), 1)
            /\ cpc' = IF todo' = {} THEN "done" ELSE "glob"
    /\ UNCHANGED <<tree, spec_ids, contractVars, parseVars, testVars, verifyVars, snapVars>>

\* collect_spec_ids: {spec.id for spec in collect_specs(specs_dir)}
CollectSpecIds ==
    /\ cpc = "done"
    /\ spec_ids' = {specs[k].id : k \in 1..Len(specs)}
    /\ cpc' = "ids"
    /\ UNCHANGED <<tree, todo, specs, contractVars, parseVars, testVars, verifyVars, snapVars>>

InitCollect ==
    ContractInit /\ ParseIdle /\ CollectIdle /\ TestIdle /\ VerifyIdle /\ SnapIdle

NextCollect ==
    \/ \E f \in CandidateFiles : CreateFile(f)
    \/ StartCollect
    \/ \E f \in todo : CollectFile(f)
    \/ CollectSpecIds

SpecCollect == InitCollect /\ [][NextCollect]_vars

(***************************************************************************)
(* Claims about the collection (SpecCollect).                              *)
(***************************************************************************)
\* The file name matches spec-*.md.
IsSpecFileName(name) == StartsWith(name, <<"s", "p", "e", "c", "-">>) /\ EndsWith(name, <<".", "m", "d">>)
                           /\ Len(name) >= Len(<<"s", "p", "e", "c", "-">>) + Len(<<".", "m", "d">>)

\* C8 (as claimed): every record collect_specs returns comes from a file
\* named spec-*.md.
C8_OnlySpecFiles ==
    cpc \in {"done", "ids"} =>
       \A k \in 1..Len(specs) : IsSpecFileName(specs[k].source_file.name)

\* The records of file f are all in the list collected.
RecordsCollected(f) ==
    LET want == ParseFrom(PathOf(f), SplitLines(Content(f.content)), 1)
    IN \A n \in 1..Len(want) : \E k \in 1..Len(specs) : specs[k] = want[n]

\* C9 (as claimed): a collection over a tree with an unreadable file among
\* the files it reads does not abort: it ends by returning a list that holds
\* the records of every readable file it reads.
C9_UnreadableDoesNotAbort ==
    /\ cpc # "raised"
    /\ cpc \in {"done", "ids"} =>
          \A f \in GlobMd(tree) : (f.readable /\ ~IsInternal(f)) => RecordsCollected(f)

\* C10 (as claimed): two occurrences of one requirement ID in two different
\* spec-*.md files are both retained by every extraction result: the ID set
\* of collect_spec_ids has as many members for them as there are (ID, file)
\* occurrences of them in the list of collect_specs.
C10_DuplicateIdsRetained ==
    cpc = "ids" =>
       LET occ == {<<specs[k].id, specs[k].source_file>> :
                      k \in {n \in 1..Len(specs) :
                                IsSpecFileName(specs[n].source_file.name)}}
       IN Cardinality({x \in spec_ids : \E o \in occ : o[1] = x}) >= Cardinality(occ)

(***************************************************************************)
(* decorators.py: the test registry.  register fans one binding out into   *)
(* the list of every requirement id the test declares.                     *)
(***************************************************************************)
MaxTests == 3

\* Names of the test functions the program decorates.
TestSeq == <<"test_1", "test_2", "test_3", "test_4", "test_5">>

\* Requirement ids a lookup may ask for.
ReqIds == {"AUTH-001", "AUTH-002", "AUTH-003"}

\* The ids of one registration: spec(id, description) declares one,
\* specs(*ids) declares several.
IdArgs ==
    {<<"AUTH-001">>, <<"AUTH-002">>, <<"AUTH-001", "AUTH-002">>,
     <<"AUTH-002", "AUTH-001">>, <<"AUTH-001", "AUTH-002", "AUTH-003">>}

Descriptions == {"", "Test description"}

Range(s) == {s[k] : k \in DOMAIN s}

\* A binding is created unexecuted: its outcome is attached after a run.
TestBinding(test, ids, description) ==
    [test |-> test, spec_ids |-> ids, description |-> description,
     outcome |-> "NotRun"]

\* Append binding b to the list of one id.
RegistryAppendOverwrite(reg, id, b) ==
    [k \in DOMAIN reg \cup {id} |-> IF k = id THEN <<b>> ELSE reg[k]]

RegistryAppend(reg, id, b) ==
    [k \in DOMAIN reg \cup {id} |->
        IF k # id THEN reg[k]
        ELSE IF k \in DOMAIN reg THEN Append(reg[k], b) ELSE <<b>>]

\* register(ids, test, description): the same binding into every id's list.
RECURSIVE RegisterAll(_, _, _)
RegisterAll(reg, ids, b) ==
    IF ids = <<>> THEN reg
    ELSE RegisterAll(RegistryAppend(reg, Head(ids), b), Tail(ids), b)

\* lookup(id): the list of bindings, empty if none.
lookup(id) ==
    IF id \in DOMAIN spec_registry THEN spec_registry[id] ELSE <<>>

\* @spec(id, description) / @specs(*ids) applied to the next test function.
Register(ids, description) ==
    /\ Len(testLog) < MaxTests
    /\ LET b == TestBinding(TestSeq[Len(testLog) + 1], ids, description)
       IN /\ spec_registry' = RegisterAll(spec_registry, ids, b)
          /\ testLog' = Append(testLog, b)
    /\ UNCHANGED <<contractVars, parseVars, collectVars, verifyVars, snapVars>>

\* clear_registry()
ClearTests ==
    /\ spec_registry' = EmptyDict
    /\ testLog' = <<>>
    /\ UNCHANGED <<contractVars, parseVars, collectVars, verifyVars, snapVars>>

RegisterNext == \E ids \in IdArgs : \E d \in Descriptions : Register(ids, d)

NextTests ==
    \/ RegisterNext
    \/ ClearTests

SpecTests == Init /\ [][NextTests]_vars

\* The bindings registered since the last clear that declare id, in order.
DeclaredFor(id) == SelectSeq(testLog, LAMBDA b : id \in Range(b.spec_ids))

\* C11: after any registrations since the last clear, the list looked up for
\* an id holds exactly the bindings whose declared ids include it, in
\* registration order; an id never registered has an empty lookup.
C11_RegistryListsBindings ==
    \A id \in ReqIds :
        /\ lookup(id) = DeclaredFor(id)
        /\ (\A k \in DOMAIN testLog : id \notin Range(testLog[k].spec_ids))
               => lookup(id) = <<>>

\* A test declared under three ids sits in each list, next to a test
\* declared under one id only.
C11_Witness ==
    /\ Len(testLog) >= 2
    /\ \E k \in DOMAIN testLog : Len(testLog[k].spec_ids) = 3
    /\ \E k \in DOMAIN testLog : Len(testLog[k].spec_ids) = 1
    /\ Len(lookup("AUTH-001")) >= 2
    /\ Len(lookup("AUTH-003")) = 1

(***************************************************************************)
(* verifier.py: one verification run.  The requirements are extracted,     *)
(* each is classified from its kind and the outcomes of its bound tests,   *)
(* and the outcomes are aggregated into the report.                        *)
(***************************************************************************)
MaxReqs == 2

\* Ids of the extracted requirements, in document order.
ReqIdSeq == <<"AUTH-001", "AUTH-002", "AUTH-003", "AUTH-004">>

\* The verification kinds the extractor produces.
Kinds == {"TEST", "MANUAL", "SKIP"}

\* The outcomes an external test run supplies.
RunOutcomes == {"Passed", "Failed", "Error"}

Statuses == {"Passing", "Failing", "Missing", "ManualOK", "Skipped"}

\* The ids the tests of a verified project declare.
VerifyIdArgs == {<<"AUTH-001">>, <<"AUTH-001", "AUTH-002">>}

\* The outcomes of a list of bindings, in order.
OutcomesOf(bindings) == [k \in DOMAIN bindings |-> bindings[k].outcome]

IsFailing(o) == o \in {"Failed", "Error"}

\* The terminal status of one requirement.
ClassifyErrorIgnored(kind, bindings) ==
    LET outs == OutcomesOf(bindings)
    IN IF kind = "SKIP" THEN "Skipped"
       ELSE IF kind = "MANUAL" THEN "ManualOK"
       ELSE IF bindings = <<>> THEN "Missing"
       ELSE IF \E k \in DOMAIN outs : outs[k] = "Failed" THEN "Failing"
       ELSE IF \A k \in DOMAIN outs : outs[k] = "Passed" THEN "Passing"
       ELSE "Missing"

Classify(kind, bindings) ==
    LET outs == OutcomesOf(bindings)
    IN IF kind = "SKIP" THEN "Skipped"
       ELSE IF kind = "MANUAL" THEN "ManualOK"
       ELSE IF bindings = <<>> THEN "Missing"
       ELSE IF \E k \in DOMAIN outs : IsFailing(outs[k]) THEN "Failing"
       ELSE IF \A k \in DOMAIN outs : outs[k] = "Passed" THEN "Passing"
       ELSE "Missing"

\* The test an outcome shows: the first failing one, else the first bound.
MatchedTest(status, bindings) ==
    IF status = "Failing"
    THEN <<bindings[CHOOSE k \in DOMAIN bindings :
                       /\ IsFailing(bindings[k].outcome)
                       /\ \A m \in 1..(k - 1) : ~IsFailing(bindings[m].outcome)]>>
    ELSE IF status = "Passing" THEN <<bindings[1]>>
    ELSE <<>>

\* The VerificationOutcome of one requirement.
OutcomeOf(req, bindings) ==
    LET status == Classify(req.verification_type, bindings)
    IN [spec |-> req, status |-> status,
        test |-> MatchedTest(status, bindings),
        unexecuted |-> (status = "Missing" /\ bindings # <<>>)]

\* Add one outcome to the report and count it under its status.
AddResultManualUncounted(rep, o) ==
    [results |-> Append(rep.results, o),
     passing |-> rep.passing + (IF o.status = "Passing" THEN 1 ELSE 0),
     failing |-> rep.failing + (IF o.status = "Failing" THEN 1 ELSE 0),
     missing |-> rep.missing + (IF o.status = "Missing" THEN 1 ELSE 0),
     manual |-> rep.manual,
     skipped |-> rep.skipped + (IF o.status = "Skipped" THEN 1 ELSE 0),
     total |-> rep.total + (IF o.status = "ManualOK" THEN 0 ELSE 1)]

AddResult(rep, o) ==
    [results |-> Append(rep.results, o),
     passing |-> rep.passing + (IF o.status = "Passing" THEN 1 ELSE 0),
     failing |-> rep.failing + (IF o.status = "Failing" THEN 1 ELSE 0),
     missing |-> rep.missing + (IF o.status = "Missing" THEN 1 ELSE 0),
     manual |-> rep.manual + (IF o.status = "ManualOK" THEN 1 ELSE 0),
     skipped |-> rep.skipped + (IF o.status = "Skipped" THEN 1 ELSE 0),
     total |-> rep.total + 1]

\* Attach outcome o of test t to its bindings.
WithOutcome(bindings, t, o) ==
    [k \in DOMAIN bindings |->
        IF bindings[k].test = t THEN [bindings[k] EXCEPT !.outcome = o]
        ELSE bindings[k]]

\* A test of the verified project is registered at import, before any run.
VerifyRegister ==
    /\ vpc = "idle"
    /\ Len(testLog) < MaxReqs
    /\ \E ids \in VerifyIdArgs : Register(ids, "")

\* The external test run reports the outcome of test t.
AttachOutcome(t, o) ==
    /\ vpc = "idle"
    /\ \E k \in DOMAIN testLog : testLog[k].test = t /\ testLog[k].outcome = "NotRun"
    /\ spec_registry' = [id \in DOMAIN spec_registry |->
                            WithOutcome(spec_registry[id], t, o)]
    /\ testLog' = WithOutcome(testLog, t, o)
    /\ UNCHANGED <<contractVars, parseVars, collectVars, verifyVars, snapVars>>

\* verify() starts: extraction over the specification source begins.
StartVerify ==
    /\ vpc = "idle"
    /\ vpc' = "extract"
    /\ UNCHANGED <<reqs, report, exit_code>>
    /\ UNCHANGED <<contractVars, parseVars, collectVars, testVars, snapVars>>

\* The extractor yields the next requirement.
Extract(kind) ==
    /\ vpc = "extract"
    /\ Len(reqs) < MaxReqs
    /\ reqs' = Append(reqs, [id |-> ReqIdSeq[Len(reqs) + 1],
                             verification_type |-> kind])
    /\ UNCHANGED <<report, vpc, exit_code>>
    /\ UNCHANGED <<contractVars, parseVars, collectVars, testVars, snapVars>>

\* Extraction is over: reconciliation starts from an empty report.
StartClassify ==
    /\ vpc = "extract"
    /\ report' = EmptyReport
    /\ vpc' = IF reqs = <<>> THEN "done" ELSE "classify"
    /\ UNCHANGED <<reqs, exit_code>>
    /\ UNCHANGED <<contractVars, parseVars, collectVars, testVars, snapVars>>

\* The next requirement is classified and its outcome aggregated.
ClassifyNext ==
    /\ vpc = "classify"
    /\ LET req == reqs[Len(report.results) + 1]
           rep == AddResult(report, OutcomeOf(req, lookup(req.id)))
       IN /\ report' = rep
          /\ vpc' = IF Len(rep.results) = Len(reqs) THEN "done" ELSE "classify"
    /\ UNCHANGED <<reqs, exit_code>>
    /\ UNCHANGED <<contractVars, parseVars, collectVars, testVars, snapVars>>

\* verify() is invoked again over the same requirements and registry.
Reverify ==
    /\ vpc = "done"
    /\ reqs # <<>>
    /\ report' = EmptyReport
    /\ vpc' = "classify"
    /\ UNCHANGED <<reqs, exit_code>>
    /\ UNCHANGED <<contractVars, parseVars, collectVars, testVars, snapVars>>

(***************************************************************************)
(* cli.py: the exit code of the verify command.                            *)
(***************************************************************************)
\* --coverage-threshold (its default) and the percentages a coverage run
\* reports; <<>> stands for None (no coverage run, or a failed one).
Thresholds == {80}
Percents == {50, 80}

CoverageRuns ==
    {[coverage |-> FALSE, coverage_percent |-> <<>>]}
        \cup {[coverage |-> TRUE, coverage_percent |-> p] :
                 p \in {<<>>} \cup {<<n>> : n \in Percents}}

\* The "Exit codes" block of verify; 0 when no typer.Exit is raised.
ExitCodeMissingFirst(rep, fail_on_missing, coverage, coverage_percent, coverage_threshold) ==
    IF fail_on_missing /\ rep.missing > 0 THEN 2
    ELSE IF rep.failing > 0 THEN 1
    ELSE IF coverage /\ coverage_percent # <<>>
            /\ coverage_percent[1] < coverage_threshold THEN 3
    ELSE 0

ExitCode(rep, fail_on_missing, coverage, coverage_percent, coverage_threshold) ==
    IF rep.failing > 0 THEN 1
    ELSE IF fail_on_missing /\ rep.missing > 0 THEN 2
    ELSE IF coverage /\ coverage_percent # <<>>
            /\ coverage_percent[1] < coverage_threshold THEN 3
    ELSE 0

\* The verify command ends, once the verifier has returned the report.
CliVerify(fail_on_missing, cov, coverage_threshold) ==
    /\ vpc = "done"
    /\ exit_code' =
          <<[code |-> ExitCode(report, fail_on_missing, cov.coverage,
                               cov.coverage_percent, coverage_threshold),
             fail_on_missing |-> fail_on_missing,
             coverage |-> cov.coverage,
             coverage_percent |-> cov.coverage_percent]>>
    /\ vpc' = "exited"
    /\ UNCHANGED <<reqs, report>>
    /\ UNCHANGED <<contractVars, parseVars, collectVars, testVars, snapVars>>

NextVerify ==
    \/ VerifyRegister
    \/ \E t \in Range(TestSeq) : \E o \in RunOutcomes : AttachOutcome(t, o)
    \/ StartVerify
    \/ \E kind \in Kinds : Extract(kind)
    \/ StartClassify
    \/ ClassifyNext
    \/ Reverify
    \/ \E fail_on_missing \in BOOLEAN : \E cov \in CoverageRuns :
           \E th \in Thresholds : CliVerify(fail_on_missing, cov, th)

SpecVerify == Init /\ [][NextVerify]_vars

\* The outcomes of the tests bound to the requirement of result k.
BoundOutcomes(k) == OutcomesOf(lookup(report.results[k].spec.id))

AnyFailing(outs) == \E m \in DOMAIN outs : outs[m] \in {"Failed", "Error"}
AllPassed(outs) == \A m \in DOMAIN outs : outs[m] = "Passed"

\* C12: every classified requirement has exactly one of the five terminal
\* statuses, fixed by its kind and the outcomes of its bound tests: Skip
\* gives Skipped; else Manual gives ManualOK, bound test or not; else no
\* bound test gives Missing; else a Failed or Error test gives Failing; else
\* all Passed gives Passing; else (a NotRun test) it counts as Missing.  A
\* finished run has classified every extracted requirement, and a second run
\* over the same inputs gives the same statuses.
C12_StatusFromKindAndOutcomes ==
    /\ \A k \in DOMAIN report.results :
         LET o == report.results[k]
             kind == o.spec.verification_type
             outs == BoundOutcomes(k)
         IN /\ o.status \in Statuses
            /\ o.spec = reqs[k]
            /\ kind = "SKIP" => o.status = "Skipped"
            /\ kind = "MANUAL" => o.status = "ManualOK"
            /\ (kind = "TEST" /\ outs = <<>>) => o.status = "Missing"
            /\ (kind = "TEST" /\ AnyFailing(outs)) => o.status = "Failing"
            /\ (kind = "TEST" /\ outs # <<>> /\ AllPassed(outs))
                   => o.status = "Passing"
            /\ (kind = "TEST" /\ ~AnyFailing(outs) /\ ~AllPassed(outs))
                   => o.status = "Missing"
    /\ vpc \in {"done", "exited"} => Len(report.results) = Len(reqs)

\* A finished run in which a test requirement with a passed and a failed
\* test is Failing and a manual requirement without any test is ManualOK.
C12_Witness ==
    /\ vpc = "done"
    /\ Len(report.results) = 2
    /\ report.results[1].status = "Failing"
    /\ \E m \in DOMAIN BoundOutcomes(1) : BoundOutcomes(1)[m] = "Passed"
    /\ report.results[2].status = "ManualOK"
    /\ BoundOutcomes(2) = <<>>

CountOf(status) ==
    Cardinality({k \in DOMAIN report.results : report.results[k].status = status})

\* C13: in every report each counter equals the number of outcomes with the
\* corresponding status, total equals the number of outcomes, and a finished
\* report holds exactly one outcome per extracted requirement, in order.
C13_CountersMatchOutcomes ==
    /\ report.passing = CountOf("Passing")
    /\ report.failing = CountOf("Failing")
    /\ report.missing = CountOf("Missing")
    /\ report.manual = CountOf("ManualOK")
    /\ report.skipped = CountOf("Skipped")
    /\ report.total = Len(report.results)
    /\ Len(report.results) <= Len(reqs)
    /\ \A k \in DOMAIN report.results : report.results[k].spec = reqs[k]
    /\ vpc \in {"done", "exited"} =>
          /\ report.total = Len(reqs)
          /\ \A k \in DOMAIN reqs :
                Cardinality({m \in DOMAIN report.results :
                                report.results[m].spec.id = reqs[k].id}) = 1

\* One passing test requirement plus one manual requirement: total 2,
\* passing 1, manual 1, missing 0.
C13_Witness ==
    /\ vpc = "done"
    /\ Len(reqs) = 2
    /\ reqs[1].verification_type = "TEST"
    /\ reqs[2].verification_type = "MANUAL"
    /\ OutcomesOf(lookup("AUTH-001")) = <<"Passed">>
    /\ report.total = 2
    /\ report.passing = 1
    /\ report.manual = 1
    /\ report.missing = 0

\* C14 as stated: whatever the flags, the exit code is non-zero when the
\* report counts a failing or a missing requirement (1 when one is failing),
\* and zero only when it counts neither.
C14_NonZeroOnFailingOrMissing ==
    exit_code # <<>> =>
        LET x == exit_code[1]
        IN /\ (report.failing > 0 \/ report.missing > 0) => x.code # 0
           /\ report.failing > 0 => x.code = 1
           /\ x.code = 0 => (report.failing = 0 /\ report.missing = 0)

\* C14, amended: a failing requirement always gives exit code 1; a missing
\* one gives exit code 2 when nothing is failing and fail_on_missing is set
\* (the default); exit code zero means nothing is failing and, unless
\* --no-fail-on-missing was given, nothing is missing.
C14_NonZeroOnFailingOrGatedMissing ==
    exit_code # <<>> =>
        LET x == exit_code[1]
        IN /\ report.failing > 0 => x.code = 1
           /\ (report.failing = 0 /\ report.missing > 0 /\ x.fail_on_missing)
                  => x.code = 2
           /\ x.code = 0 =>
                  /\ report.failing = 0
                  /\ (report.missing = 0 \/ ~x.fail_on_missing)
           /\ (report.missing > 0 /\ ~x.fail_on_missing /\ report.failing = 0)
                  => x.code \in {0, 3}

\* A report with both a failing and a missing requirement, flags at their
\* defaults: the command has exited with code 1.
C14_Witness ==
    /\ exit_code # <<>>
    /\ report.failing > 0
    /\ report.missing > 0
    /\ exit_code[1].fail_on_missing
    /\ ~exit_code[1].coverage
    /\ exit_code[1].code = 1

(***************************************************************************)
(* contracts.py: async_wrapper.  The checks are those of sync_wrapper; the *)
(* call of the underlying coroutine function is awaited, so it may suspend *)
(* the wrapper while the event loop runs other tasks.                      *)
(***************************************************************************)
MaxSuspends == 2

\* What driving the awaited coroutine can do: suspend, return or raise.
AwaitOutcomes == BodyOutcomes \cup {"suspend"}

\* The log positions where the underlying coroutine suspended the wrapper.
Suspensions == {m \in 1..Len(log) : log[m].phase = "await"}

\* result = await func(*args, **kwargs): one run of the coroutine up to its
\* next suspension or its end.
AwaitStepNotAwaited(info, out) ==
    IF out = "suspend"
    THEN [pc |-> AfterEnsures(info, 0), result |-> <<"<coroutine>">>, exc |-> <<>>]
    ELSE BodyStep(info, out)

AwaitStep(info, out) ==
    IF out = "suspend"
    THEN [pc |-> "suspended", result |-> <<>>, exc |-> <<>>]
    ELSE BodyStep(info, out)

\* The awaited coroutine is started (pc = "body") or resumed by the event
\* loop (pc = "suspended"); with no postcondition, `return result`.
AwaitFunc(out) ==
    /\ pc \in {"body", "suspended"}
    /\ out = "suspend" => Cardinality(Suspensions) < MaxSuspends
    /\ LET st == AwaitStep(EnforcedInfo(call.func), out)
       IN /\ pc' = st.pc
          /\ result' = st.result
          /\ exc' = st.exc
          /\ returned' = IF st.pc = "returned" THEN WrapperReturn(st.result) ELSE <<>>
    /\ sideEffect' = TRUE
    /\ log' = Append(log, LogEntry(IF out = "suspend" THEN "await" ELSE "body", -1,
                                   IF pc = "body" THEN "call" ELSE "resume",
                                   call.args, call.kwargs, out))
    /\ UNCHANGED <<wrapped, registry, regLog, call, i>>
    /\ UNCHANGED <<parseVars, collectVars, testVars, verifyVars, snapVars>>

\* While the wrapper is suspended another task runs and clears the registry.
OtherTaskClears ==
    /\ pc = "suspended"
    /\ registry # EmptyDict
    /\ registry' = EmptyDict
    /\ regLog' = <<>>
    /\ UNCHANGED <<wrapped, pc, call, i, log, sideEffect, result, returned, exc>>
    /\ UNCHANGED <<parseVars, collectVars, testVars, verifyVars, snapVars>>

\* The one coroutine function of SpecAsync is decorated.
DecorateAsync ==
    /\ wrapped = EmptyDict
    /\ \E spec \in {None, "AUTH-001"} : \E nreq \in 0..MaxConds : \E nens \in 0..MaxConds :
          Decorate(spec, nreq, nens)

NextAsync ==
    \/ DecorateAsync
    \/ \E f \in DOMAIN wrapped : \E a \in CallArgs : Call(f, a)
    \/ \E out \in PredOutcomes : CheckRequires(out)
    \/ \E out \in PredOutcomes : RetryRequires(out)
    \/ \E out \in AwaitOutcomes : AwaitFunc(out)
    \/ OtherTaskClears
    \/ \E out \in PredOutcomes : CheckEnsures(out)
    \/ Finish

SpecAsync == Init /\ [][NextAsync]_vars

\* The log positions where the underlying coroutine ran (started or resumed).
Driven == {m \in 1..Len(log) : log[m].phase \in {"await", "body"}}

\* The log positions where the underlying coroutine completed with a result.
Completed == {m \in 1..Len(log) : log[m].phase = "body" /\ log[m].out \in Results}

\* C15: for a wrapped coroutine function, every precondition is evaluated
\* before the underlying function starts and before any suspension; a failed
\* precondition means the function never starts; postconditions are evaluated
\* only after the awaited function completed, on the result it produced; the
\* three phases are never reordered by what runs during a suspension.
C15_AsyncPhasesInOrder ==
    pc # "idle" =>
        /\ \A n \in 1..Len(log) :
              log[n].phase = "requires" =>
                  /\ \A m \in 1..(n - 1) : log[m].phase = "requires"
                  /\ ~log[n].saw
        /\ \A n \in Driven :
              Cardinality(Passed("requires", n)) = Len(wrapped[call.func].requires)
        /\ (pc = "raised" /\ log # <<>> /\ log[Len(log)].phase = "requires")
              => (Driven = {} /\ ~sideEffect)
        /\ \A n \in 1..Len(log) :
              log[n].phase = "ensures" =>
                  /\ \E m \in Completed : m < n /\ log[n].args = <<log[m].out>>
                  /\ \A m \in Driven : m < n
        /\ pc = "suspended" => (result = <<>> /\ returned = <<>> /\ exc = <<>>)
        /\ Cardinality(Completed) <= 1

\* A call that passed a precondition, suspended, was resumed to completion
\* while another task had cleared the registry, and passed a postcondition.
C15_Witness ==
    /\ pc = "returned"
    /\ Suspensions # {}
    /\ registry = EmptyDict
    /\ wrapped[call.func].spec_id = "AUTH-001"
    /\ \E n \in 1..Len(log) : log[n].phase = "requires"
    /\ \E n \in 1..Len(log) : log[n].phase = "ensures"

(***************************************************************************)
(* Claims about the retry of a precondition (Spec).                        *)
(***************************************************************************)
\* The log positions where precondition idx was invoked.
InvocationsOf(idx) ==
    {m \in 1..Len(log) : log[m].phase = "requires" /\ log[m].index = idx}

\* C16: a precondition whose full invocation raised TypeError is retried once
\* with the positional arguments only, and the retry decides: true lets the
\* checking go on with the next predicate, false raises the violation
\* ("failed") for that index, and only a retry that itself raises is reported
\* as a predicate error ("raised error"); no predicate is invoked more than
\* twice in one call.
C16_RetryDecides ==
    pc # "idle" =>
        /\ \A n \in 1..Len(log) :
              (log[n].phase = "requires" /\ log[n].mode = "positional") =>
                  /\ n > 1
                  /\ log[n - 1].phase = "requires"
                  /\ log[n - 1].mode = "full"
                  /\ log[n - 1].index = log[n].index
                  /\ log[n - 1].out = "TypeError"
                  /\ log[n].args = call.args
                  /\ log[n].kwargs = {}
                  /\ (n = Len(log) /\ log[n].out = "True") =>
                        /\ exc = <<>>
                        /\ pc = AfterRequires(wrapped[call.func], log[n].index + 1)
                  /\ (n = Len(log) /\ log[n].out = "False") =>
                        /\ RaisedContractError("requires", log[n].index)
                        /\ exc[1].message = "failed"
                  /\ (n = Len(log) /\ log[n].out \in {"TypeError", "OtherError"}) =>
                        /\ RaisedContractError("requires", log[n].index)
                        /\ exc[1].message = "raised error"
        /\ \A n \in 1..Len(log) :
              (log[n].phase = "requires" /\ log[n].mode = "full"
                  /\ log[n].out = "TypeError") =>
                  IF n = Len(log) THEN pc = "retry"
                  ELSE log[n + 1].mode = "positional"
        /\ \A idx \in 0..(MaxConds - 1) : Cardinality(InvocationsOf(idx)) <= 2

(***************************************************************************)
(* contracts.py: readers of the registry.  A verification run takes the    *)
(* mapping get_contract_registry() returns and later reads single entries  *)
(* with get_contract_for_spec(); another thread registers and clears       *)
(* meanwhile (no lock guards _contract_registry).                          *)
(***************************************************************************)
MaxReads == 2

\* return _contract_registry.copy(): a dict of its own, holding what the
\* registry holds at the return (`taken` keeps that for reference).
get_contract_registry ==
    [mapping |-> registry, taken |-> registry, mutated |-> FALSE]

\* What the holder of a returned mapping sees in it.
View(m) == m.mapping

\* del d[id]
DictWithout(d, id) == [k \in DOMAIN d \ {id} |-> d[k]]

\* The run starts: snapshot = get_contract_registry().
StartRun ==
    /\ snapshot = <<>>
    /\ snapshot' = <<get_contract_registry>>
    /\ observed' = <<>>
    /\ UNCHANGED <<contractVars, parseVars, collectVars, testVars, verifyVars>>

\* The run deletes an entry of the mapping it was given.
MutateSnapshot(id) ==
    /\ snapshot # <<>>
    /\ id \in DOMAIN View(snapshot[1])
    /\ snapshot' = <<[snapshot[1] EXCEPT !.mapping = DictWithout(@, id),
                                         !.mutated = TRUE]>>
    /\ UNCHANGED <<observed, contractVars, parseVars, collectVars, testVars, verifyVars>>

\* The run reads one entry: get_contract_for_spec(id).
ReadSpec(id) ==
    /\ snapshot # <<>>
    /\ Len(observed) < MaxReads
    /\ observed' = Append(observed, [spec_id |-> id,
                                     value |-> get_contract_for_spec(id)])
    /\ UNCHANGED <<snapshot, contractVars, parseVars, collectVars, testVars, verifyVars>>

\* The run ends.
EndRun ==
    /\ snapshot # <<>>
    /\ snapshot' = <<>>
    /\ observed' = <<>>
    /\ UNCHANGED <<contractVars, parseVars, collectVars, testVars, verifyVars>>

\* A function is registered under a requirement id, by any thread.
DecorateWithId ==
    \E spec \in {"AUTH-001", "AUTH-002"} : Decorate(spec, 1, 0)

NextSnapshot ==
    \/ DecorateWithId
    \/ ClearRegistry
    \/ StartRun
    \/ \E id \in {"AUTH-001", "AUTH-002"} : MutateSnapshot(id)
    \/ \E id \in {"AUTH-001", "AUTH-002"} : ReadSpec(id)
    \/ EndRun

SpecSnapshot == Init /\ [][NextSnapshot]_vars

\* The entry of a dict under id; <<>> stands for None.
EntryOf(d, id) == IF id \in DOMAIN d THEN <<d[id]>> ELSE <<>>

\* The returned mapping is not affected by registrations and clears made
\* after the return, and mutating it leaves the registry as its writers left
\* it.
SnapshotIsolated ==
    /\ (snapshot # <<>> /\ ~snapshot[1].mutated)
          => View(snapshot[1]) = snapshot[1].taken
    /\ snapshot # <<>> =>
          \A id \in DOMAIN View(snapshot[1]) :
              EntryOf(View(snapshot[1]), id) = EntryOf(snapshot[1].taken, id)
    /\ \A id \in SpecArgs : get_contract_for_spec(id) = LastRegistered(id)

\* C17: the mapping returned at the start of a run is a snapshot (no later
\* registration or clear shows in it, mutating it does not touch the
\* registry), and every read made during the run sees what the snapshot
\* taken at the start of the run holds.
C17_ReadsSeeSnapshot ==
    /\ SnapshotIsolated
    /\ snapshot # <<>> =>
          \A k \in DOMAIN observed :
              observed[k].value = EntryOf(snapshot[1].taken, observed[k].spec_id)

(***************************************************************************)
(* contracts.py: several wrapped functions, some under the same id, called *)
(* after later registrations and clears.                                   *)
(***************************************************************************)
\* A function is decorated without an id or under the shared id.
DecorateShared ==
    \E spec \in {None, "AUTH-001"} : \E nreq \in {0, 1} :
        Decorate(spec, nreq, 1 - nreq)

NextEnforce ==
    \/ DecorateShared
    \/ ClearRegistry
    \/ \E f \in DOMAIN wrapped : \E a \in CallArgs : Call(f, a)
    \/ \E out \in PredOutcomes : CheckRequires(out)
    \/ \E out \in PredOutcomes : RetryRequires(out)
    \/ \E out \in BodyOutcomes : CallFunc(out)
    \/ \E out \in PredOutcomes : CheckEnsures(out)
    \/ Finish

SpecEnforce == Init /\ [][NextEnforce]_vars

\* The call in flight is enforced against the contract its own function was
\* decorated with, whatever the registry holds now.
OwnContractEnforced ==
    pc # "idle" =>
        LET own == wrapped[call.func]
        IN /\ \A n \in 1..Len(log) :
                 /\ log[n].phase = "requires" => log[n].index < Len(own.requires)
                 /\ log[n].phase = "ensures" => log[n].index < Len(own.ensures)
           /\ BodyRuns # {} =>
                 \A k \in 0..(Len(own.requires) - 1) :
                     \E n \in Passed("requires", Len(log) + 1) : log[n].index = k
           /\ pc = "returned" =>
                 \A k \in 0..(Len(own.ensures) - 1) :
                     \E n \in Passed("ensures", Len(log) + 1) : log[n].index = k
           /\ (pc = "raised" /\ Len(exc) = 1 /\ exc[1].type = "ContractError") =>
                 exc[1].spec_id = own.spec_id

\* A step of a call, from its entry to the caller going on.
CallStep == pc # "idle" \/ pc' # "idle"

\* A function is wrapped without a requirement id.
DecorateWithoutId ==
    /\ wrapped' # wrapped
    /\ \E f \in DOMAIN wrapped' \ DOMAIN wrapped : ~Truthy(wrapped'[f].spec_id)

\* C18: every call of a wrapped function evaluates that function's own
\* preconditions and postconditions and tags its violations with its own
\* requirement id, also after the registry was cleared or its id was
\* registered again by another function; calling a wrapped function and
\* wrapping a function without an id leave the registry unchanged.
C18_EnforcementIgnoresRegistry ==
    /\ []OwnContractEnforced
    /\ [][(CallStep \/ DecorateWithoutId) => registry' = registry]_vars

\* A call of f, decorated under AUTH-001 with a precondition, fails that
\* precondition with f's id after g took over the registry entry of AUTH-001.
C18_Witness ==
    /\ call.func = "f"
    /\ RaisedContractError("requires", 0)
    /\ exc[1].spec_id = "AUTH-001"
    /\ "AUTH-001" \in DOMAIN registry
    /\ registry["AUTH-001"].func_name = "g"
    /\ Len(registry["AUTH-001"].requires) = 0

====
